---------------------------- MODULE Spec2Model ----------------------------
(***************************************************************************)
(* Artists of compas: the Blender frame artist, the Grasshopper mesh       *)
(* artist, the Rhino mesh artist (frameartist.py) and the Rhino cone       *)
(* artist.  Each artist is modelled with the attributes it keeps, the      *)
(* host calls its last operation issued and the value that operation       *)
(* returned.  Floats are modelled by integers (scale 1.0 is 1), Python     *)
(* lists and tuples by sequences, an optional argument by a sequence of    *)
(* length 0 (None, or left out) or 1 (the value given).                    *)
(***************************************************************************)
EXTENDS Integers, Sequences, FiniteSets, TLC

VARIABLES
    \* ---- compas_blender FrameArtist
    primitive,        \* the frame: [name, point, xaxis, yaxis]
    collection,       \* the collection handed to the host
    scale_arg,        \* the scale argument of the constructor call
    scale,            \* self.scale
    color_origin,     \* self.color_origin
    color_xaxis,      \* self.color_xaxis
    color_yaxis,      \* self.color_yaxis
    color_zaxis,      \* self.color_zaxis
    bl_next,          \* the next object handle the Blender host hands out
    bl_op,            \* the last operation called on the artist
    bl_calls,         \* the host calls that operation issued, in order
    bl_result,        \* the list that operation returned
    \* ---- compas_ghpython MeshArtist
    show_mesh,        \* self.show_mesh
    show_vertices,    \* self.show_vertices
    show_edges,       \* self.show_edges
    show_faces,       \* self.show_faces
    vertex_color,     \* self.vertex_color: None until a colour is assigned
    edge_color,       \* self.edge_color
    face_color,       \* self.face_color
    gh_op,            \* the operation whose result the caller holds, or "idle"
    gh_args,          \* the arguments of that operation
    gh_calls,         \* the host calls that operation issued, in order
    gh_result,        \* the list that operation returned
    \* ---- compas_rhino mesh artist (frameartist.py)
    rh_mesh,          \* self.mesh: [name, keys, xyz, faces]
    rh_layer,         \* self.layer
    rh_objects,       \* the objects of the Rhino document: [guid, name, layer]
    rh_next,          \* the next guid the Rhino host hands out
    rh_drawn,         \* the guids draw_mesh created since the mesh was set
    rh_op,            \* the last operation called on the artist
    rh_calls,         \* the calls that operation issued, in order
    rh_result,        \* the value that operation returned
    \* ---- compas_rhino ConeArtist
    co_shape,         \* self.shape: the cone, [name]
    co_layer,         \* self.layer
    co_color,         \* self.color
    co_u,             \* self.u
    co_next,          \* the next guid the Rhino host hands out
    co_op,            \* the last operation called on the artist
    co_args,          \* the arguments of that operation
    co_calls,         \* the calls that operation issued, in order
    co_result         \* the list that operation returned

bl_vars == <<primitive, collection, scale_arg, scale, color_origin, color_xaxis,
             color_yaxis, color_zaxis, bl_next, bl_op, bl_calls, bl_result>>

gh_vars == <<show_mesh, show_vertices, show_edges, show_faces, vertex_color,
             edge_color, face_color, gh_op, gh_args, gh_calls, gh_result>>

rh_vars == <<rh_mesh, rh_layer, rh_objects, rh_next, rh_drawn, rh_op, rh_calls,
             rh_result>>

co_vars == <<co_shape, co_layer, co_color, co_u, co_next, co_op, co_args, co_calls, co_result>>

vars == <<bl_vars, gh_vars, rh_vars, co_vars>>

\* ------------------------------------------------------------------------
\* Python values

None == <<>>
Some(x) == <<x>>

\* x or d, for an optional number: None and 0 are false
OrNumber(x, d) == IF x = None \/ x[1] = 0 THEN d ELSE x[1]

\* x or d, for an optional list or tuple: None and the empty one are false
OrList(x, d) == IF x = None \/ x[1] = <<>> THEN d ELSE x[1]

\* the handles first, first+1, ... the host returns for n new objects
Handles(first, n) == [i \in 1..n |-> first + i - 1]

\* ------------------------------------------------------------------------
\* compas.geometry: points, vectors and frames

Add(p, v) == <<p[1] + v[1], p[2] + v[2], p[3] + v[3]>>

Scaled(v, s) == <<v[1] * s, v[2] * s, v[3] * s>>

Cross(u, v) == <<u[2] * v[3] - u[3] * v[2],
                 u[3] * v[1] - u[1] * v[3],
                 u[1] * v[2] - u[2] * v[1]>>

zaxis(frame) == Cross(frame.xaxis, frame.yaxis)

\* ------------------------------------------------------------------------
\* Bounds of the model

MaxScale == 2            \* scale factors range over -1..MaxScale
MaxBlenderObjects == 8   \* handles the Blender host hands out in one run
MaxSelection == 2        \* length of a selection list passed to draw_vertices, ...
MaxDrawSelection == 2    \* total length of the selection lists passed to draw
NumVertices == 5         \* vertices of a mesh drawn by the Rhino mesh artist
MaxFaceLen == 5          \* vertices of one face of such a mesh
MaxFaces == 2            \* faces of such a mesh
MaxRhinoObjects == 3     \* guids the Rhino host hands out in one run
MaxU == 4                \* the u argument of ConeArtist.draw ranges over -1..MaxU
MaxConeObjects == 2      \* guids the host hands out to the cone artist

ScaleValues == -1..MaxScale

Colors == {<<0, 0, 0>>, <<10, 20, 30>>}

Frames ==
    {[name |-> "frame", point |-> a[1], xaxis |-> a[2], yaxis |-> a[3]] :
        a \in {<< <<0, 0, 0>>, <<1, 0, 0>>, <<0, 1, 0>> >>,
               << <<1, 2, 3>>, <<0, 1, 0>>, <<1, 0, 0>> >>,
               << <<1, 2, 3>>, <<0, 0, 1>>, <<1, 0, 0>> >>}}

\* ------------------------------------------------------------------------
\* compas_ghpython MeshArtist

\* the mesh of the artist: two triangles back to back on three vertices
mesh ==
    [name |-> "mesh",
     vertices |-> <<0, 1, 2>>,
     xyz |-> [v \in 0..2 |-> <<v, v * v, 0>>],
     faces |-> <<0, 1>>,
     face_vertices |-> [f \in 0..1 |-> IF f = 0 THEN <<0, 1, 2>> ELSE <<0, 2, 1>>],
     edges |-> << <<0, 1>>, <<1, 2>>, <<2, 0>> >>]

default_color == <<0, 0, 0>>
default_vertexcolor == <<255, 255, 255>>
default_edgecolor == <<0, 0, 0>>
default_facecolor == <<210, 210, 210>>

\* self.vertex_color = color (and edge_color, face_color): an rgb colour is
\* kept for every element, None leaves the colours as they are
SetColor(old, color) == IF color = None THEN old ELSE color

\* self.vertex_color.get(vertex, default)
GetColor(colors, default) == IF colors = None THEN default ELSE colors[1]

\* lists of length at most n over the keys in S
Lists(S, n) == UNION {[1..k -> S] : k \in 0..n}

\* the values of an optional selection argument
Selections(keys, n) == {None} \cup {Some(l) : l \in Lists(keys, n)}

Range(l) == {l[i] : i \in 1..Len(l)}

SelectionLen(sel) == IF sel = None THEN 0 ELSE Len(sel[1])

OptionalColors == {None, Some(<<10, 20, 30>>)}

NoArgs == [vertices |-> None, edges |-> None, faces |-> None, join_faces |-> FALSE]

\* the geometry the host creates for the descriptors of one call
Geometry(type, items) ==
    [i \in 1..Len(items) |-> [type |-> type, desc |-> <<items[i]>>, appended |-> <<>>]]

\* Rhino.Geometry.Mesh()
NewMesh == [type |-> "Mesh", desc |-> <<>>, appended |-> <<>>]

\* joined_mesh.Append(mesh), for every mesh of the list in turn
RECURSIVE AppendAll(_, _)
AppendAll(joined, meshes) ==
    IF meshes = <<>> THEN joined
    ELSE AppendAll([joined EXCEPT !.appended = Append(@, Head(meshes))], Tail(meshes))

\* draw_mesh: the call of compas_ghpython.draw_mesh
DrawMeshCall(color) ==
    LET faces == [i \in 1..Len(mesh.faces) |-> mesh.face_vertices[mesh.faces[i]]]
        vertices == [i \in 1..Len(mesh.vertices) |-> mesh.xyz[mesh.vertices[i]]]
        args == [vertices |-> vertices, faces |-> faces,
                 color |-> OrList(color, default_color)]
    IN  [fn |-> "draw_mesh", items |-> <<args>>,
         returned |-> [type |-> "Mesh", desc |-> <<args>>, appended |-> <<>>]]

\* draw_vertices: vertices = vertices or list(self.mesh.vertices())
VerticesDrawn(vertices) == OrList(vertices, mesh.vertices)

\* draw_vertices: the call of compas_ghpython.draw_points
DrawVerticesCall(vertices, colors) ==
    LET sel == VerticesDrawn(vertices)
        points == [i \in 1..Len(sel) |->
                     [pos |-> mesh.xyz[sel[i]],
                      name |-> mesh.name \o ".vertex." \o ToString(sel[i]),
                      color |-> GetColor(colors, default_vertexcolor)]]
    IN  [fn |-> "draw_points", items |-> points, returned |-> Geometry("Point3d", points)]

\* draw_faces: faces = faces or list(self.mesh.faces())
FacesDrawn(faces) == OrList(faces, mesh.faces)

\* draw_faces: the call of compas_ghpython.draw_faces
DrawFacesCall(faces, colors) ==
    LET sel == FacesDrawn(faces)
        facets == [i \in 1..Len(sel) |->
                     [points |-> [j \in 1..Len(mesh.face_vertices[sel[i]]) |->
                                     mesh.xyz[mesh.face_vertices[sel[i]][j]]],
                      name |-> mesh.name \o ".face." \o ToString(sel[i]),
                      color |-> GetColor(colors, default_facecolor)]]
    IN  [fn |-> "draw_faces", items |-> facets, returned |-> Geometry("Mesh", facets)]

\* DrawFacesResult with the test of join_faces inverted
DrawFacesResultInverted(meshes, join_faces) ==
    IF join_faces THEN meshes ELSE << AppendAll(NewMesh, meshes) >>

\* draw_faces: the list returned, the meshes of the host or the one joined mesh
DrawFacesResult(meshes, join_faces) ==
    IF ~join_faces THEN meshes ELSE << AppendAll(NewMesh, meshes) >>

\* draw_edges: edges = edges or list(self.mesh.edges())
EdgesDrawn(edges) == OrList(edges, mesh.edges)

\* draw_edges: the call of compas_ghpython.draw_lines
DrawEdgesCall(edges, colors) ==
    LET sel == EdgesDrawn(edges)
        lines == [i \in 1..Len(sel) |->
                    [start |-> mesh.xyz[sel[i][1]],
                     end |-> mesh.xyz[sel[i][2]],
                     color |-> GetColor(colors, default_edgecolor),
                     name |-> mesh.name \o ".edge." \o ToString(sel[i][1])
                                  \o "-" \o ToString(sel[i][2])]]
    IN  [fn |-> "draw_lines", items |-> lines, returned |-> Geometry("Line", lines)]

GHFlags == <<show_mesh, show_vertices, show_edges, show_faces>>

\* draw: the host calls issued, given the call each part would make
DrawHostCalls(m, v, e, f) ==
    (IF show_mesh THEN <<m>> ELSE <<>>)
    \o (IF show_vertices THEN <<v>> ELSE <<>>)
    \o (IF show_edges THEN <<e>> ELSE <<>>)
    \o (IF show_faces THEN <<f>> ELSE <<>>)

\* DrawGeometry with the mesh drawn whatever show_mesh says
DrawGeometryAlwaysMesh(m, v, e, f, join_faces) ==
    <<m.returned>>
    \o (IF show_vertices THEN v.returned ELSE <<>>)
    \o (IF show_edges THEN e.returned ELSE <<>>)
    \o (IF show_faces THEN DrawFacesResult(f.returned, join_faces) ELSE <<>>)

\* draw: geometry = [] ; append the mesh, extend by the vertices, edges, faces
DrawGeometry(m, v, e, f, join_faces) ==
    (IF show_mesh THEN <<m.returned>> ELSE <<>>)
    \o (IF show_vertices THEN v.returned ELSE <<>>)
    \o (IF show_edges THEN e.returned ELSE <<>>)
    \o (IF show_faces THEN DrawFacesResult(f.returned, join_faces) ELSE <<>>)

\* draw: the parts drawn, in the order of the four tests; the caller passes
\* the same colour, or none, as color, vertexcolor, edgecolor and facecolor
ghpython_draw ==
    /\ gh_op = "idle"
    /\ \E vertices \in Selections(Range(mesh.vertices), MaxDrawSelection),
          edges \in Selections(Range(mesh.edges), MaxDrawSelection),
          faces \in Selections(Range(mesh.faces), MaxDrawSelection),
          color \in OptionalColors, join_faces \in BOOLEAN :
          /\ SelectionLen(vertices) + SelectionLen(edges) + SelectionLen(faces)
                 <= MaxDrawSelection
          /\ vertex_color' = IF show_vertices THEN SetColor(vertex_color, color)
                             ELSE vertex_color
          /\ edge_color' = IF show_edges THEN SetColor(edge_color, color) ELSE edge_color
          /\ face_color' = IF show_faces THEN SetColor(face_color, color) ELSE face_color
          /\ LET m == DrawMeshCall(color)
                 v == DrawVerticesCall(vertices, vertex_color')
                 e == DrawEdgesCall(edges, edge_color')
                 f == DrawFacesCall(faces, face_color')
             IN  /\ gh_calls' = DrawHostCalls(m, v, e, f)
                 /\ gh_result' = DrawGeometry(m, v, e, f, join_faces)
          /\ gh_args' = [vertices |-> vertices, edges |-> edges, faces |-> faces,
                         join_faces |-> join_faces]
    /\ gh_op' = "draw"
    /\ UNCHANGED GHFlags
    /\ UNCHANGED <<bl_vars, rh_vars, co_vars>>

ghpython_draw_mesh ==
    /\ gh_op = "idle"
    /\ \E color \in OptionalColors :
          /\ gh_calls' = << DrawMeshCall(color) >>
          /\ gh_result' = << DrawMeshCall(color).returned >>
    /\ gh_args' = NoArgs
    /\ gh_op' = "draw_mesh"
    /\ UNCHANGED <<GHFlags, vertex_color, edge_color, face_color>>
    /\ UNCHANGED <<bl_vars, rh_vars, co_vars>>

ghpython_draw_vertices ==
    /\ gh_op = "idle"
    /\ \E vertices \in Selections(Range(mesh.vertices), MaxSelection),
          color \in OptionalColors :
          /\ vertex_color' = SetColor(vertex_color, color)
          /\ gh_calls' = << DrawVerticesCall(vertices, vertex_color') >>
          /\ gh_result' = gh_calls'[1].returned
          /\ gh_args' = [NoArgs EXCEPT !.vertices = vertices]
    /\ gh_op' = "draw_vertices"
    /\ UNCHANGED <<GHFlags, edge_color, face_color>>
    /\ UNCHANGED <<bl_vars, rh_vars, co_vars>>

ghpython_draw_faces ==
    /\ gh_op = "idle"
    /\ \E faces \in Selections(Range(mesh.faces), MaxSelection),
          color \in OptionalColors, join_faces \in BOOLEAN :
          /\ face_color' = SetColor(face_color, color)
          /\ gh_calls' = << DrawFacesCall(faces, face_color') >>
          /\ gh_result' = DrawFacesResult(gh_calls'[1].returned, join_faces)
          /\ gh_args' = [NoArgs EXCEPT !.faces = faces, !.join_faces = join_faces]
    /\ gh_op' = "draw_faces"
    /\ UNCHANGED <<GHFlags, vertex_color, edge_color>>
    /\ UNCHANGED <<bl_vars, rh_vars, co_vars>>

ghpython_draw_edges ==
    /\ gh_op = "idle"
    /\ \E edges \in Selections(Range(mesh.edges), MaxSelection),
          color \in OptionalColors :
          /\ edge_color' = SetColor(edge_color, color)
          /\ gh_calls' = << DrawEdgesCall(edges, edge_color') >>
          /\ gh_result' = gh_calls'[1].returned
          /\ gh_args' = [NoArgs EXCEPT !.edges = edges]
    /\ gh_op' = "draw_edges"
    /\ UNCHANGED <<GHFlags, vertex_color, face_color>>
    /\ UNCHANGED <<bl_vars, rh_vars, co_vars>>

\* clear_edges, clear_vertices, clear_faces: pass
ghpython_clear ==
    /\ gh_op = "idle"
    /\ gh_op' = "clear"
    /\ gh_calls' = <<>>
    /\ gh_result' = <<>>
    /\ gh_args' = NoArgs
    /\ UNCHANGED <<GHFlags, vertex_color, edge_color, face_color>>
    /\ UNCHANGED <<bl_vars, rh_vars, co_vars>>

\* the caller assigns one of the show_ flags
ghpython_set_show ==
    /\ gh_op = "idle"
    /\ \E b \in BOOLEAN :
          \/ show_mesh' = b /\ UNCHANGED <<show_vertices, show_edges, show_faces>>
          \/ show_vertices' = b /\ UNCHANGED <<show_mesh, show_edges, show_faces>>
          \/ show_edges' = b /\ UNCHANGED <<show_mesh, show_vertices, show_faces>>
          \/ show_faces' = b /\ UNCHANGED <<show_mesh, show_vertices, show_edges>>
    /\ UNCHANGED <<vertex_color, edge_color, face_color, gh_op, gh_args, gh_calls,
                   gh_result>>
    /\ UNCHANGED <<bl_vars, rh_vars, co_vars>>

\* the operation has returned and the caller goes on
ghpython_return ==
    /\ gh_op # "idle"
    /\ gh_op' = "idle"
    /\ gh_args' = NoArgs
    /\ gh_calls' = <<>>
    /\ gh_result' = <<>>
    /\ UNCHANGED <<GHFlags, vertex_color, edge_color, face_color>>
    /\ UNCHANGED <<bl_vars, rh_vars, co_vars>>


\* ------------------------------------------------------------------------
\* compas_rhino mesh artist (frameartist.py)

\* mesh.key_index(): the position, from 0, of every vertex key
key_index(m) == [k \in Range(m.keys) |-> (CHOOSE i \in 1..Len(m.keys) : m.keys[i] = k) - 1]

\* mesh.get_vertices_attributes('xyz'): a new list of the coordinates
get_vertices_attributes(m) == [i \in 1..Len(m.keys) |-> m.xyz[m.keys[i]]]

\* compas.geometry.centroid_polygon, left uninterpreted
centroid_polygon(points) == <<"centroid_polygon", points>>

\* compas.utilities.pairwise: the consecutive pairs of a list
pairwise(l) == [i \in 1..(Len(l) - 1) |-> <<l[i], l[i + 1]>>]

\* draw_mesh: faces, as lists of vertex indices
InputFaces(m) ==
    [f \in 1..Len(m.faces) |->
        [j \in 1..Len(m.faces[f]) |-> key_index(m)[m.faces[f][j]]]]

\* draw_mesh: a triangle, face + face[-1:]
TriangleFace(face) == face \o << face[Len(face)] >>

\* CentroidIndex taken after the centroid is appended
CentroidIndexAfterAppend(vertices) == Len(vertices) + 1

\* draw_mesh: centroid = len(vertices)
CentroidIndex(vertices) == Len(vertices)

\* FanFaces without the pair that closes the polygon
FanFacesOpen(face, centroid) ==
    LET pairs == pairwise(face)
    IN  [i \in 1..Len(pairs) |-> <<centroid, pairs[i][1], pairs[i][2], pairs[i][2]>>]

\* draw_mesh: [centroid, a, b, b] for a, b in pairwise(face + face[0:1])
FanFaces(face, centroid) ==
    LET pairs == pairwise(face \o SubSeq(face, 1, 1))
    IN  [i \in 1..Len(pairs) |-> <<centroid, pairs[i][1], pairs[i][2], pairs[i][2]>>]

\* draw_mesh: the loop over the faces, with the lists it extends
RECURSIVE NewFaces(_, _, _)
NewFaces(faces, vertices, new_faces) ==
    IF faces = <<>> THEN [vertices |-> vertices, faces |-> new_faces]
    ELSE LET face == Head(faces)
             l == Len(face)
         IN  IF l = 3 THEN
                 NewFaces(Tail(faces), vertices, Append(new_faces, TriangleFace(face)))
             ELSE IF l = 4 THEN
                 NewFaces(Tail(faces), vertices, Append(new_faces, face))
             ELSE IF l > 4 THEN
                 LET centroid == CentroidIndex(vertices)
                     points == [i \in 1..l |-> vertices[face[i] + 1]]
                 IN  NewFaces(Tail(faces),
                              Append(vertices, centroid_polygon(points)),
                              new_faces \o FanFaces(face, centroid))
             ELSE NewFaces(Tail(faces), vertices, new_faces)

\* "{}.mesh".format(self.mesh.name)
MeshObjectName(m) == m.name \o ".mesh"

\* draw_mesh: the call of compas_rhino.draw_mesh
DrawMeshHostCall(m, layer, color, disjoint) ==
    LET drawn == NewFaces(InputFaces(m), get_vertices_attributes(m), <<>>)
    IN  [fn |-> "draw_mesh", vertices |-> drawn.vertices, faces |-> drawn.faces,
         layer |-> layer, name |-> MeshObjectName(m), color |-> color,
         disjoint |-> disjoint]

\* compas_rhino.get_objects(name=...): the guids of the objects with that name
get_objects(objects, name) == {o.guid : o \in {x \in objects : x.name = name}}

\* compas_rhino.delete_objects(guids)
delete_objects(objects, guids) == {o \in objects : o.guid \notin guids}

\* clear_mesh with every object of the artist's layer deleted
ClearMeshLayer(objects, m) == {o \in objects : o.layer # rh_layer}

\* clear_mesh: the objects of the document it leaves
ClearMesh(objects, m) == delete_objects(objects, get_objects(objects, MeshObjectName(m)))

\* the names "<mesh name>.<kind>.*" of the objects of one kind; the keys are
\* those the meshes of the model can have
ElementNames(m, kind) ==
    {m.name \o "." \o kind \o "." \o ToString(k) : k \in 0..1}
    \cup {m.name \o "." \o kind \o ".0-1"}

\* clear_vertices, clear_faces, clear_edges, of the base artist
ClearElements(objects, m, kind) == {o \in objects : o.name \notin ElementNames(m, kind)}

\* the mesh with the given name and faces; the faces list vertex keys
MeshOf(name, faces) ==
    [name |-> name,
     keys |-> [i \in 1..NumVertices |-> 10 + i],
     xyz |-> [k \in 11..(10 + NumVertices) |-> <<k, k * k, 0>>],
     faces |-> faces]

\* the face of n vertices that starts at the vertex at position first
FaceFrom(first, n) == [i \in 1..n |-> 11 + ((first + i - 1) % NumVertices)]

Faces == {FaceFrom(first, n) : first \in {0, 2}, n \in 0..MaxFaceLen}

FaceLists == Lists(Faces, MaxFaces)

\* the meshes the artist is given where the host document matters
HostMeshes ==
    {MeshOf("a", << FaceFrom(0, 3) >>),
     MeshOf("a", << FaceFrom(0, 5), FaceFrom(2, 4) >>),
     MeshOf("b", << FaceFrom(2, 3) >>)}

\* objects of the document that the artist did not create
ForeignObjects ==
    {[guid |-> 100, name |-> "a.mesh", layer |-> "other"],
     [guid |-> 101, name |-> "a.vertex.0", layer |-> "COMPAS"],
     [guid |-> 102, name |-> "b.mesh", layer |-> "COMPAS"],
     [guid |-> 103, name |-> "curve", layer |-> "COMPAS"]}

RhinoSettings == <<rh_mesh, rh_layer>>

rhino_draw_mesh ==
    /\ rh_next < MaxRhinoObjects
    /\ \E color \in OptionalColors, disjoint \in BOOLEAN :
          rh_calls' = << DrawMeshHostCall(rh_mesh, rh_layer, color, disjoint) >>
    /\ rh_objects' = rh_objects \cup
          {[guid |-> rh_next, name |-> rh_calls'[1].name, layer |-> rh_calls'[1].layer]}
    /\ rh_result' = rh_next
    /\ rh_next' = rh_next + 1
    /\ rh_drawn' = rh_drawn \cup {rh_next}
    /\ rh_op' = "draw_mesh"
    /\ UNCHANGED RhinoSettings
    /\ UNCHANGED <<bl_vars, gh_vars, co_vars>>

rhino_clear_mesh ==
    /\ rh_objects' = ClearMesh(rh_objects, rh_mesh)
    /\ rh_calls' = << [fn |-> "clear_mesh"] >>
    /\ rh_result' = None
    /\ rh_op' = "clear_mesh"
    /\ UNCHANGED <<RhinoSettings, rh_next, rh_drawn>>
    /\ UNCHANGED <<bl_vars, gh_vars, co_vars>>

\* clear: clear_vertices, clear_faces, clear_mesh, clear_edges
ClearCalls ==
    << [fn |-> "clear_vertices"], [fn |-> "clear_faces"], [fn |-> "clear_mesh"],
       [fn |-> "clear_edges"] >>

rhino_clear ==
    /\ rh_objects' =
          ClearElements(
              ClearMesh(
                  ClearElements(ClearElements(rh_objects, rh_mesh, "vertex"),
                                rh_mesh, "face"),
                  rh_mesh),
              rh_mesh, "edge")
    /\ rh_calls' = ClearCalls
    /\ rh_result' = None
    /\ rh_op' = "clear"
    /\ UNCHANGED <<RhinoSettings, rh_next, rh_drawn>>
    /\ UNCHANGED <<bl_vars, gh_vars, co_vars>>

\* the mesh setter: self.datastructure = mesh
rhino_set_mesh ==
    /\ \E m \in HostMeshes : rh_mesh' = m
    /\ rh_drawn' = {}
    /\ rh_calls' = <<>>
    /\ rh_result' = None
    /\ rh_op' = "set_mesh"
    /\ UNCHANGED <<rh_layer, rh_objects, rh_next>>
    /\ UNCHANGED <<bl_vars, gh_vars, co_vars>>

\* ------------------------------------------------------------------------
\* compas_rhino ConeArtist

\* shape.to_vertices_and_faces(u=u), of the geometry library, left uninterpreted
to_vertices_and_faces(cone, n) ==
    [vertices |-> <<"vertices", cone.name, n>>, faces |-> <<"faces", cone.name, n>>]

\* draw: u = u or self.u
DrawU(u_arg) == OrNumber(u_arg, co_u)

\* draw: color = color or self.color
DrawColor(color_arg) == OrList(color_arg, co_color)

\* draw: the calls issued, in order
ConeDrawCalls(color_arg, u_arg) ==
    LET vf == to_vertices_and_faces(co_shape, DrawU(u_arg))
    IN  << [fn |-> "to_vertices_and_faces", u |-> DrawU(u_arg)],
           [fn |-> "draw_mesh", vertices |-> vf.vertices, faces |-> vf.faces,
            layer |-> co_layer, name |-> co_shape.name, color |-> DrawColor(color_arg),
            disjoint |-> TRUE, returned |-> co_next] >>

UValues == -1..MaxU

cone_draw ==
    /\ co_next < MaxConeObjects
    /\ \E color_arg \in {None, Some(<<0, 0, 0>>), Some(<<10, 20, 30>>)},
          u_arg \in {None} \cup {Some(n) : n \in UValues} :
          /\ co_args' = [color |-> color_arg, u |-> u_arg]
          /\ co_calls' = ConeDrawCalls(color_arg, u_arg)
          /\ co_result' = << co_calls'[2].returned >>
    /\ co_next' = co_next + 1
    /\ co_op' = "draw"
    /\ UNCHANGED <<co_shape, co_layer, co_color, co_u>>
    /\ UNCHANGED <<bl_vars, gh_vars, rh_vars>>

\* the caller assigns artist.color
cone_set_color ==
    /\ \E c \in Colors : co_color' = c
    /\ co_op' = "set"
    /\ co_args' = <<>>
    /\ co_calls' = <<>>
    /\ co_result' = <<>>
    /\ UNCHANGED <<co_shape, co_layer, co_u, co_next>>
    /\ UNCHANGED <<bl_vars, gh_vars, rh_vars>>

\* the caller assigns artist.u
cone_set_u ==
    /\ \E n \in {8, 16} : co_u' = n
    /\ co_op' = "set"
    /\ co_args' = <<>>
    /\ co_calls' = <<>>
    /\ co_result' = <<>>
    /\ UNCHANGED <<co_shape, co_layer, co_color, co_next>>
    /\ UNCHANGED <<bl_vars, gh_vars, rh_vars>>

\* ------------------------------------------------------------------------
\* compas_blender FrameArtist

\* the radius 0.01 of the origin point, as the fraction 1/100
radius == <<1, 100>>

\* a call of compas_blender.draw_points or draw_lines: one object per item
HostCall(fn, items, coll, first) ==
    [fn |-> fn, items |-> items, collection |-> coll,
     returned |-> Handles(first, Len(items))]

\* self.clear(), of the Blender base artist
ClearCall(coll) ==
    [fn |-> "clear", items |-> <<>>, collection |-> coll, returned |-> <<>>]

\* __init__: scale=1.0 when left out, then self.scale = scale or 1.0
InitScale(arg) == OrNumber(arg, 1)

\* __init__: collection=collection or frame.name
InitCollection(arg, frame) == IF arg = None \/ arg[1] = "" THEN frame.name ELSE arg[1]

\* draw_origin: the list of point descriptors
OriginPoints ==
    << [pos |-> primitive.point,
        name |-> primitive.name \o ".origin",
        color |-> color_origin,
        radius |-> radius] >>

\* AxisEnd with the scale fixed when the artist was constructed
AxisEndAtInit(axis) == Add(primitive.point, Scaled(axis, InitScale(scale_arg)))

\* draw_axes: the end point of an axis
AxisEnd(axis) == Add(primitive.point, Scaled(axis, scale))

\* draw_axes: the list of line descriptors
AxesLines ==
    << [start |-> primitive.point, end |-> AxisEnd(primitive.xaxis),
        color |-> color_xaxis, name |-> primitive.name \o ".xaxis"],
       [start |-> primitive.point, end |-> AxisEnd(primitive.yaxis),
        color |-> color_yaxis, name |-> primitive.name \o ".yaxis"],
       [start |-> primitive.point, end |-> AxisEnd(zaxis(primitive)),
        color |-> color_zaxis, name |-> primitive.name \o ".zaxis"] >>

\* draw: the calls issued, in order
DrawCalls ==
    << ClearCall(collection),
       HostCall("draw_points", OriginPoints, collection, bl_next),
       HostCall("draw_lines", AxesLines, collection, bl_next + Len(OriginPoints)) >>

\* DrawObjects with the axes collected before the origin
DrawObjectsAxesFirst(calls) == calls[3].returned \o calls[2].returned

\* draw: objects = [] ; objects += draw_origin() ; objects += draw_axes()
DrawObjects(calls) == calls[2].returned \o calls[3].returned

BlenderSettings == <<primitive, collection, scale_arg, scale, color_origin,
                     color_xaxis, color_yaxis, color_zaxis>>

blender_draw ==
    /\ UNCHANGED <<gh_vars, rh_vars, co_vars>>
    /\ bl_next + 4 <= MaxBlenderObjects
    /\ bl_op' = "draw"
    /\ bl_calls' = DrawCalls
    /\ bl_result' = DrawObjects(DrawCalls)
    /\ bl_next' = bl_next + 4
    /\ UNCHANGED BlenderSettings

blender_draw_origin ==
    /\ UNCHANGED <<gh_vars, rh_vars, co_vars>>
    /\ bl_next + 1 <= MaxBlenderObjects
    /\ bl_op' = "draw_origin"
    /\ bl_calls' = << HostCall("draw_points", OriginPoints, collection, bl_next) >>
    /\ bl_result' = bl_calls'[1].returned
    /\ bl_next' = bl_next + 1
    /\ UNCHANGED BlenderSettings

blender_draw_axes ==
    /\ UNCHANGED <<gh_vars, rh_vars, co_vars>>
    /\ bl_next + 3 <= MaxBlenderObjects
    /\ bl_op' = "draw_axes"
    /\ bl_calls' = << HostCall("draw_lines", AxesLines, collection, bl_next) >>
    /\ bl_result' = bl_calls'[1].returned
    /\ bl_next' = bl_next + 3
    /\ UNCHANGED BlenderSettings

\* the caller assigns artist.scale
blender_set_scale ==
    /\ UNCHANGED <<gh_vars, rh_vars, co_vars>>
    /\ \E s \in ScaleValues : scale' = s
    /\ bl_op' = "set"
    /\ bl_calls' = <<>>
    /\ bl_result' = <<>>
    /\ UNCHANGED <<primitive, collection, scale_arg, color_origin, color_xaxis,
                   color_yaxis, color_zaxis, bl_next>>

\* the caller assigns one of the artist's colours
blender_set_color ==
    /\ UNCHANGED <<gh_vars, rh_vars, co_vars>>
    /\ \E c \in Colors :
          \/ color_origin' = c /\ UNCHANGED <<color_xaxis, color_yaxis, color_zaxis>>
          \/ color_xaxis' = c /\ UNCHANGED <<color_origin, color_yaxis, color_zaxis>>
          \/ color_yaxis' = c /\ UNCHANGED <<color_origin, color_xaxis, color_zaxis>>
          \/ color_zaxis' = c /\ UNCHANGED <<color_origin, color_xaxis, color_yaxis>>
    /\ bl_op' = "set"
    /\ bl_calls' = <<>>
    /\ bl_result' = <<>>
    /\ UNCHANGED <<primitive, collection, scale_arg, scale, bl_next>>

\* ------------------------------------------------------------------------
\* Specifications: one per artist, the other artists left as constructed

GHIdle ==
    /\ show_mesh = FALSE
    /\ show_vertices = TRUE
    /\ show_edges = TRUE
    /\ show_faces = TRUE
    /\ vertex_color = None
    /\ edge_color = None
    /\ face_color = None
    /\ gh_op = "idle"
    /\ gh_args = NoArgs
    /\ gh_calls = <<>>
    /\ gh_result = <<>>

ConeIdle ==
    /\ co_shape = [name |-> "cone"]
    /\ co_layer = None
    /\ co_color = <<0, 0, 0>>
    /\ co_u = 16
    /\ co_next = 0
    /\ co_op = "__init__"
    /\ co_args = <<>>
    /\ co_calls = <<>>
    /\ co_result = <<>>

RhinoIdle ==
    /\ rh_mesh = MeshOf("a", <<>>)
    /\ rh_layer = "COMPAS"
    /\ rh_objects = {}
    /\ rh_next = 0
    /\ rh_drawn = {}
    /\ rh_op = "__init__"
    /\ rh_calls = <<>>
    /\ rh_result = None

BlenderIdle ==
    /\ primitive = CHOOSE f \in Frames : TRUE
    /\ collection = "frame"
    /\ scale_arg = None
    /\ scale = 1
    /\ color_origin = <<0, 0, 0>>
    /\ color_xaxis = <<255, 0, 0>>
    /\ color_yaxis = <<0, 255, 0>>
    /\ color_zaxis = <<0, 0, 255>>
    /\ bl_next = 0
    /\ bl_op = "__init__"
    /\ bl_calls = <<>>
    /\ bl_result = <<>>

BlenderInit ==
    /\ ConeIdle
    /\ GHIdle
    /\ RhinoIdle
    /\ primitive \in Frames
    /\ \E arg \in {None, Some("Frames")} :
           collection = InitCollection(arg, primitive)
    /\ scale_arg \in {None} \cup {Some(s) : s \in ScaleValues}
    /\ scale = InitScale(scale_arg)
    /\ color_origin = <<0, 0, 0>>
    /\ color_xaxis = <<255, 0, 0>>
    /\ color_yaxis = <<0, 255, 0>>
    /\ color_zaxis = <<0, 0, 255>>
    /\ bl_next = 0
    /\ bl_op = "__init__"
    /\ bl_calls = <<>>
    /\ bl_result = <<>>

BlenderNext ==
    \/ blender_draw
    \/ blender_draw_origin
    \/ blender_draw_axes
    \/ blender_set_scale
    \/ blender_set_color

SpecBlender == BlenderInit /\ [][BlenderNext]_vars

\* __init__: the four flags are constructor arguments
GHInit ==
    /\ ConeIdle
    /\ BlenderIdle
    /\ RhinoIdle
    /\ show_mesh \in BOOLEAN
    /\ show_vertices \in BOOLEAN
    /\ show_edges \in BOOLEAN
    /\ show_faces \in BOOLEAN
    /\ vertex_color = None
    /\ edge_color = None
    /\ face_color = None
    /\ gh_op = "idle"
    /\ gh_args = NoArgs
    /\ gh_calls = <<>>
    /\ gh_result = <<>>

GHNext ==
    \/ ghpython_draw
    \/ ghpython_draw_mesh
    \/ ghpython_draw_vertices
    \/ ghpython_draw_faces
    \/ ghpython_draw_edges
    \/ ghpython_clear
    \/ ghpython_set_show
    \/ ghpython_return

SpecGH == GHInit /\ [][GHNext]_vars

\* the artist of any mesh of the bounds, in an empty document
RhinoMeshInit ==
    /\ ConeIdle
    /\ BlenderIdle
    /\ GHIdle
    /\ rh_mesh \in {MeshOf("a", faces) : faces \in FaceLists}
    /\ rh_layer = "COMPAS"
    /\ rh_objects = {}
    /\ rh_next = 0
    /\ rh_drawn = {}
    /\ rh_op = "__init__"
    /\ rh_calls = <<>>
    /\ rh_result = None

RhinoMeshNext ==
    \/ rhino_draw_mesh
    \/ rhino_clear_mesh

SpecRhinoMesh == RhinoMeshInit /\ [][RhinoMeshNext]_vars

\* the artist of one of a few meshes, in a document that holds other objects
RhinoHostInit ==
    /\ ConeIdle
    /\ BlenderIdle
    /\ GHIdle
    /\ rh_mesh \in HostMeshes
    /\ rh_layer = "COMPAS"
    /\ rh_objects \in {ForeignObjects, {}}
    /\ rh_next = 0
    /\ rh_drawn = {}
    /\ rh_op = "__init__"
    /\ rh_calls = <<>>
    /\ rh_result = None

RhinoHostNext ==
    \/ rhino_draw_mesh
    \/ rhino_clear_mesh
    \/ rhino_clear
    \/ rhino_set_mesh

SpecRhinoHost == RhinoHostInit /\ [][RhinoHostNext]_vars

\* __init__: the cone and the layer are constructor arguments
ConeInit ==
    /\ BlenderIdle
    /\ GHIdle
    /\ RhinoIdle
    /\ co_shape = [name |-> "cone"]
    /\ co_layer \in {None, Some("COMPAS")}
    /\ co_color = <<0, 0, 0>>
    /\ co_u = 16
    /\ co_next = 0
    /\ co_op = "__init__"
    /\ co_args = <<>>
    /\ co_calls = <<>>
    /\ co_result = <<>>

ConeNext ==
    \/ cone_draw
    \/ cone_set_color
    \/ cone_set_u

SpecCone == ConeInit /\ [][ConeNext]_vars

\* ------------------------------------------------------------------------
\* Properties of the Blender frame artist

BlenderDrew == bl_op \in {"draw", "draw_origin", "draw_axes"}

\* the line descriptors among the calls of the last operation
LinesDrawn == IF bl_op = "draw" THEN bl_calls[3].items
              ELSE IF bl_op = "draw_axes" THEN bl_calls[1].items ELSE <<>>

\* the point descriptors among the calls of the last operation
PointsDrawn == IF bl_op = "draw" THEN bl_calls[2].items
               ELSE IF bl_op = "draw_origin" THEN bl_calls[1].items ELSE <<>>

\* the scale the constructor was called with, 1.0 when none was given
GivenScale == IF scale_arg = None THEN 1 ELSE scale_arg[1]

\* C2: draw_axes right after FrameArtist(frame, scale=s) emits three lines
\* ending at origin + s * xaxis, origin + s * yaxis and origin + s * zaxis,
\* for every s; 1.0 is used only when no scale was given.
C2_GivenScaleControlsAxes ==
    [][(bl_op = "__init__" /\ bl_op' = "draw_axes") =>
          /\ Len(LinesDrawn') = 3
          /\ LinesDrawn'[1].end = Add(primitive.point, Scaled(primitive.xaxis, GivenScale))
          /\ LinesDrawn'[2].end = Add(primitive.point, Scaled(primitive.yaxis, GivenScale))
          /\ LinesDrawn'[3].end = Add(primitive.point, Scaled(zaxis(primitive), GivenScale))]_vars

\* C4: draw calls clear first, then creates the origin point, then the three
\* axis lines x, y, z, and returns the handle of the origin followed by the
\* handles of the x, y and z axes.
C4_DrawOrder ==
    bl_op = "draw" =>
        /\ Len(bl_calls) = 3
        /\ bl_calls[1].fn = "clear"
        /\ bl_calls[2].fn = "draw_points"
        /\ Len(bl_calls[2].items) = 1
        /\ bl_calls[2].items[1].name = primitive.name \o ".origin"
        /\ bl_calls[3].fn = "draw_lines"
        /\ [i \in 1..Len(bl_calls[3].items) |-> bl_calls[3].items[i].name] =
               << primitive.name \o ".xaxis", primitive.name \o ".yaxis",
                  primitive.name \o ".zaxis" >>
        /\ Len(bl_calls[2].returned) = 1
        /\ Len(bl_calls[3].returned) = 3
        /\ bl_result = << bl_calls[2].returned[1], bl_calls[3].returned[1],
                          bl_calls[3].returned[2], bl_calls[3].returned[3] >>
        /\ Cardinality({bl_result[i] : i \in 1..Len(bl_result)}) = 4

\* a second draw of the same artist
C4_Witness == bl_op = "draw" /\ bl_next = 8 /\ Len(bl_result) = 4

\* the colours and the scale a descriptor list carries are those of the attributes
CarriesSettings(points, lines, s, co, cx, cy, cz) ==
    /\ \A i \in 1..Len(points) : points[i].color = co
    /\ Len(lines) = 3 =>
          /\ lines[1].color = cx /\ lines[2].color = cy /\ lines[3].color = cz
          /\ lines[1].end = Add(primitive.point, Scaled(primitive.xaxis, s))
          /\ lines[2].end = Add(primitive.point, Scaled(primitive.yaxis, s))
          /\ lines[3].end = Add(primitive.point, Scaled(zaxis(primitive), s))

NamesOf(items) == [i \in 1..Len(items) |-> items[i].name]

VertexNames(keys) ==
    [i \in 1..Len(keys) |-> mesh.name \o ".vertex." \o ToString(keys[i])]

FaceNames(keys) ==
    [i \in 1..Len(keys) |-> mesh.name \o ".face." \o ToString(keys[i])]

EdgeNames(keys) ==
    [i \in 1..Len(keys) |->
        mesh.name \o ".edge." \o ToString(keys[i][1]) \o "-" \o ToString(keys[i][2])]

\* the elements a selection argument asks for: all of them only when it is None
Asked(selection, all) == IF selection = None THEN all ELSE selection[1]

\* C3: draw_vertices, draw_edges and draw_faces emit one descriptor per element
\* of the selection list, in list order, and nothing else; all elements are
\* drawn only when the selection is None, and an empty list draws nothing.
C3_DrawsExactlySelection ==
    /\ gh_op = "draw_vertices" =>
          NamesOf(gh_calls[1].items) = VertexNames(Asked(gh_args.vertices, mesh.vertices))
    /\ gh_op = "draw_edges" =>
          NamesOf(gh_calls[1].items) = EdgeNames(Asked(gh_args.edges, mesh.edges))
    /\ gh_op = "draw_faces" =>
          NamesOf(gh_calls[1].items) = FaceNames(Asked(gh_args.faces, mesh.faces))

Shown(fn) ==
    \/ fn = "draw_mesh" /\ show_mesh
    \/ fn = "draw_points" /\ show_vertices
    \/ fn = "draw_lines" /\ show_edges
    \/ fn = "draw_faces" /\ show_faces

\* the geometry one part of draw contributes, from what the host returned
PartGeometry(call) ==
    IF call.fn = "draw_mesh" THEN << call.returned >>
    ELSE IF call.fn = "draw_faces" /\ gh_args.join_faces
         THEN << [type |-> "Mesh", desc |-> <<>>, appended |-> call.returned] >>
         ELSE call.returned

RECURSIVE Concatenated(_)
Concatenated(calls) ==
    IF calls = <<>> THEN <<>>
    ELSE PartGeometry(Head(calls)) \o Concatenated(Tail(calls))

C7_JoinFaces ==
    gh_op = "draw_faces" =>
        LET meshes == gh_calls[1].returned
            drawn == gh_calls[1].items
        IN  /\ Len(meshes) = Len(drawn)
            /\ \A i \in 1..Len(meshes) : meshes[i].desc = << drawn[i] >>
            /\ gh_args.join_faces =>
                  /\ Len(gh_result) = 1
                  /\ gh_result[1].type = "Mesh"
                  /\ gh_result[1].appended = meshes
            /\ ~gh_args.join_faces => gh_result = meshes

\* two different faces joined, the second face of the mesh first
C7_Witness ==
    /\ gh_op = "draw_faces"
    /\ gh_args.join_faces
    /\ gh_args.faces = Some(<<1, 0>>)
    /\ Len(gh_result) = 1
    /\ NamesOf([i \in 1..2 |-> gh_result[1].appended[i].desc[1]]) = FaceNames(<<1, 0>>)

\* ------------------------------------------------------------------------
\* Properties of the Rhino mesh artist

\* the faces passed to the host are, block by block in the order of the input
\* faces: [a, b, c, c] for a triangle, the face itself for a quad, the n faces
\* [centroid, a, b, b] of the pairs (a, b) around a face of n > 4 vertices,
\* whose centroid is a vertex appended after the first initial ones, and
\* nothing for a face of fewer than 3 vertices
RECURSIVE FacesMatch(_, _, _)
FacesMatch(input, passed, initial) ==
    IF input = <<>> THEN passed = <<>>
    ELSE LET face == Head(input)
             n == Len(face)
         IN  IF n < 3 THEN FacesMatch(Tail(input), passed, initial)
             ELSE IF n = 3 THEN
                 /\ Len(passed) >= 1
                 /\ passed[1] = <<face[1], face[2], face[3], face[3]>>
                 /\ FacesMatch(Tail(input), Tail(passed), initial)
             ELSE IF n = 4 THEN
                 /\ Len(passed) >= 1
                 /\ passed[1] = face
                 /\ FacesMatch(Tail(input), Tail(passed), initial)
             ELSE
                 /\ Len(passed) >= n
                 /\ passed[1][1] >= initial
                 /\ \A i \in 1..n :
                       passed[i] = <<passed[1][1], face[i], face[(i % n) + 1],
                                     face[(i % n) + 1]>>
                 /\ FacesMatch(Tail(input), SubSeq(passed, n + 1, Len(passed)), initial)

BigFaces(input) == SelectSeq(input, LAMBDA face : Len(face) > 4)

\* the centroid indices the fans of the faces passed use, one set per input
\* face of more than 4 vertices, in order
RECURSIVE FanCentroids(_, _)
FanCentroids(input, passed) ==
    IF input = <<>> \/ passed = <<>> THEN <<>>
    ELSE LET n == Len(Head(input))
         IN  IF n < 3 THEN FanCentroids(Tail(input), passed)
             ELSE IF n <= 4 THEN FanCentroids(Tail(input), Tail(passed))
             ELSE << {passed[i][1] : i \in 1..(IF n <= Len(passed) THEN n ELSE Len(passed))} >>
                  \o FanCentroids(Tail(input),
                                  SubSeq(passed, n + 1, Len(passed)))

C6_ArgumentsOrDefaults ==
    co_op = "draw" =>
        /\ Len(co_calls) = 2
        /\ co_calls[1].fn = "to_vertices_and_faces"
        /\ co_calls[1].u = (IF co_args.u = None THEN co_u ELSE co_args.u[1])
        /\ co_calls[2].fn = "draw_mesh"
        /\ co_calls[2].color = (IF co_args.color = None THEN co_color ELSE co_args.color[1])
        /\ co_calls[2].disjoint
        /\ co_calls[2].layer = co_layer
        /\ co_calls[2].name = co_shape.name
        /\ co_result = << co_calls[2].returned >>

============================================================================
